---------------------------- MODULE Spec2Model ----------------------------
(***************************************************************************)
(* Tenant access-decision logic of @kreatika/payload-multitenant:          *)
(*   src/src/lib/helpers.ts  getSelectedTenantFromCookie, extractTenantId  *)
(*   src/src/plugin.ts       extractUserTenantIds and the four access      *)
(*                           functions create / read / update / delete     *)
(*                                                                         *)
(* The plugin owns no state: every access function is a function of the    *)
(* request, the collection's original access rules and the plugin options. *)
(* A behaviour of the model is one call: Init draws the inputs, one action *)
(* applies the called function and records what it returned.               *)
(*                                                                         *)
(* JavaScript values are tagged records (field t is the typeof-like tag);  *)
(* strings that the code parses are sequences of one-character strings.    *)
(***************************************************************************)
EXTENDS Integers, Sequences, FiniteSets

VARIABLES
    req,             \* the inbound request (user and the four cookie shapes)
    originalAccess,  \* collection.access || {} : one rule per operation
    fieldNameOpt,    \* collections[slug].fieldName of the plugin options
    called,          \* which function this behaviour called ("none" before)
    result,          \* the value it returned
    threw,           \* TRUE when it raised instead of returning
    delegateCalls,   \* how many times it invoked the original access rule
    arg,             \* the arguments of a call of an exported helper
    payload,         \* the document store (req.payload, or the payload argument)
    storeCalls,      \* how many queries the call sent to the store
    pluginOptions,   \* the options multiTenantPlugin was given
    incomingConfig,  \* the host configuration handed to the plugin
    documentCookie,  \* the cookies the admin's browser holds for the site
    selections       \* what the admin chose in the dropdown, oldest first

vars ==
    <<req, originalAccess, fieldNameOpt, called, result, threw, delegateCalls,
      arg, payload, storeCalls, pluginOptions, incomingConfig,
      documentCookie, selections>>

\* the browser side, which no server-side call reads or writes
browserVars == <<documentCookie, selections>>

\* what a call of an access function neither reads nor writes
helperVars == <<arg, payload, storeCalls, pluginOptions, incomingConfig>>

\* what a call of a helper or of the plugin neither reads nor writes
accessVars == <<req, originalAccess, fieldNameOpt, delegateCalls>>

---------------------------------------------------------------------------
(* JavaScript values *)

Undef == [t |-> "undefined"]
Null == [t |-> "null"]
Bool(b) == [t |-> "boolean", b |-> b]
Num(n) == [t |-> "number", n |-> n]
Str(s) == [t |-> "string", s |-> s]

\* ToBoolean: undefined, null, false, 0 and "" are falsy (NaN is never a Num here)
Truthy(v) ==
    CASE v.t = "undefined" -> FALSE
      [] v.t = "null" -> FALSE
      [] v.t = "boolean" -> v.b
      [] v.t = "number" -> v.n # 0
      [] v.t = "string" -> v.s # <<>>
      [] OTHER -> TRUE

\* a call that returned v / a call that raised
Return(v) == [threw |-> FALSE, ret |-> v]
Throw == [threw |-> TRUE, ret |-> Undef]

---------------------------------------------------------------------------
(* String.prototype.split / trim / startsWith, Array.prototype.find, parseInt *)

RECURSIVE Split(_, _)
Split(s, ch) ==
    IF \A i \in 1..Len(s) : s[i] # ch
    THEN <<s>>
    ELSE LET i == CHOOSE k \in 1..Len(s) :
                      s[k] = ch /\ \A j \in 1..(k - 1) : s[j] # ch
         IN <<SubSeq(s, 1, i - 1)>> \o Split(SubSeq(s, i + 1, Len(s)), ch)

RECURSIVE TrimStart(_)
TrimStart(s) == IF s # <<>> /\ s[1] = " " THEN TrimStart(Tail(s)) ELSE s

RECURSIVE TrimEnd(_)
TrimEnd(s) ==
    IF s # <<>> /\ s[Len(s)] = " " THEN TrimEnd(SubSeq(s, 1, Len(s) - 1)) ELSE s

Trim(s) == TrimEnd(TrimStart(s))

StartsWith(s, p) == Len(s) >= Len(p) /\ SubSeq(s, 1, Len(p)) = p

Digits == <<"0", "1", "2", "3", "4", "5", "6", "7", "8", "9">>

IsDigit(c) == \E d \in 1..Len(Digits) : Digits[d] = c

DigitVal(c) == (CHOOSE d \in 1..Len(Digits) : Digits[d] = c) - 1

\* the longest prefix of s made of digits
RECURSIVE DigitPrefix(_)
DigitPrefix(s) ==
    IF s # <<>> /\ IsDigit(s[1]) THEN <<s[1]>> \o DigitPrefix(Tail(s)) ELSE <<>>

RECURSIVE DigitsValue(_)
DigitsValue(ds) ==
    IF ds = <<>> THEN 0
    ELSE 10 * DigitsValue(SubSeq(ds, 1, Len(ds) - 1)) + DigitVal(ds[Len(ds)])

\* parseInt(string, 10): leading white space skipped, an optional sign, then the
\* longest run of digits; whatever follows the digits is ignored; no digit: NaN
ParseIntString(s) ==
    LET t == TrimStart(s)
        signed == t # <<>> /\ t[1] \in {"+", "-"}
        body == IF signed THEN Tail(t) ELSE t
        ds == DigitPrefix(body)
    IN IF ds = <<>> THEN [nan |-> TRUE, n |-> 0]
       ELSE [nan |-> FALSE,
             n |-> IF signed /\ t[1] = "-" THEN 0 - DigitsValue(ds) ELSE DigitsValue(ds)]

\* parseInt(value, 10) of any value: the value is converted to a string first
\* (an integer prints as itself; true, objects and functions print no digit)
parseInt(v) ==
    CASE v.t = "string" -> ParseIntString(v.s)
      [] v.t = "number" -> [nan |-> FALSE, n |-> v.n]
      [] OTHER -> [nan |-> TRUE, n |-> 0]

---------------------------------------------------------------------------
(* getSelectedTenantFromCookie, src/src/lib/helpers.ts:19-75 *)

\* cookieName = 'payload-selected-tenant' (plugin.ts:69, helpers.ts:21)
CookieName == <<"p", "a", "y", "l", "o", "a", "d", "-", "s", "e", "l", "e", "c", "t",
                "e", "d", "-", "t", "e", "n", "a", "n", "t">>

\* cookies.find(c => c.trim().startsWith(`${cookieName}=`)): the first such
\* segment, untrimmed, or undefined
FindTenantCookie(cookies) ==
    LET hits == {i \in 1..Len(cookies) : StartsWith(Trim(cookies[i]), CookieName \o <<"=">>)}
    IN IF hits = {} THEN Undef
       ELSE Str(cookies[CHOOSE i \in hits : \A j \in hits : i <= j])

\* tenantCookie.split('=')[1]?.trim()
CookieValueOf(tenantCookie) ==
    LET parts == Split(tenantCookie, "=")
    IN IF Len(parts) >= 2 THEN Str(Trim(parts[2])) ELSE Undef

\* isNaN(numValue) ? value : numValue
NumberOrRaw(value) ==
    LET numValue == parseInt(value)
    IN IF numValue.nan THEN value ELSE Num(numValue.n)

\* The body shared by methods 2 and 4 once a cookie header value is at hand:
\* helpers.ts:31-41 and 57-67. [done |-> TRUE] means the function returns ret;
\* done = FALSE means control falls through to the next method.
FromCookieHeader(header) ==
    IF header.t # "string"
    THEN [done |-> TRUE, out |-> Throw]      \* header.split is not a function
    ELSE LET cookies == Split(header.s, ";")
             tenantCookie == FindTenantCookie(cookies)
             value == IF tenantCookie.t = "string" THEN CookieValueOf(tenantCookie.s)
                      ELSE Undef
         IN IF Truthy(tenantCookie) /\ Truthy(value) /\ value # Str(<<"a", "l", "l">>)
            THEN [done |-> TRUE, out |-> Return(NumberOrRaw(value))]
            ELSE [done |-> FALSE, out |-> Return(Null)]

\* Method 4, helpers.ts:54-69: req.headers.get('cookie')
Method4(r) ==
    IF ~Truthy(r.headersGet) THEN Return(Null)
    ELSE IF r.headersGet.t # "function" \/ r.headersGet.throws THEN Throw
    ELSE IF ~Truthy(r.headersGet.returns) THEN Return(Null)
    ELSE FromCookieHeader(r.headersGet.returns).out

\* Method 3, helpers.ts:45-51: req.cookies[cookieName]
Method3(r) ==
    IF Truthy(r.cookie) /\ r.cookie # Str(<<"a", "l", "l">>)
    THEN Return(NumberOrRaw(r.cookie))
    ELSE Method4(r)

\* Method 2, helpers.ts:30-42: req.headers.cookie
Method2(r) ==
    IF ~Truthy(r.headersCookie) THEN Method3(r)
    ELSE LET h == FromCookieHeader(r.headersCookie)
         IN IF h.done THEN h.out ELSE Method3(r)

\* The try block, helpers.ts:24-69; method 1 returns req.context.selectedTenant
\* whenever it is not undefined.
SelectorTry(r) ==
    IF r.t # "object" THEN Return(Null)          \* req?. on null / undefined
    ELSE IF r.selectedTenant # Undef THEN Return(r.selectedTenant)
    ELSE Method2(r)

\* try { ... } catch (error) { } return null
getSelectedTenantFromCookie(r) ==
    LET body == SelectorTry(r)
    IN IF body.threw THEN Null ELSE body.ret

---------------------------------------------------------------------------
(* extractTenantId, src/src/lib/helpers.ts:83-94 *)

\* a populated tenant document: the fields the extractor reads (Undef = not set)
TenantDoc(id, uid, ID) == [t |-> "object", id |-> id, _id |-> uid, ID |-> ID]

\* a || b in the place of a ?? b: every falsy value gives way, 0 and "" too
CoalesceOr(a, b) == IF ~Truthy(a) THEN b ELSE a

\* tenant.id ?? tenant._id ?? tenant.ID
Coalesce(a, b) == IF a \in {Undef, Null} THEN b ELSE a

extractTenantId(tenant) ==
    IF ~Truthy(tenant) THEN Null
    ELSE IF tenant.t = "number" THEN tenant
    ELSE IF tenant.t = "string" THEN tenant
    ELSE IF tenant.t = "object"
         THEN LET id == Coalesce(Coalesce(tenant.id, tenant._id), tenant.ID)
              IN IF id # Undef /\ id # Null THEN id ELSE Null
    ELSE Null

---------------------------------------------------------------------------
(* extractUserTenantIds, src/src/plugin.ts:47-55 *)

\* an entry of user.tenants: { tenant: ... }
Assignment(tenant) == [t |-> "object", tenant |-> tenant]

JsArray(a) == [t |-> "array", a |-> a]

\* t.tenant: a TypeError on null / undefined, undefined on any other non-object
TenantOf(entry) ==
    IF entry.t \in {"null", "undefined"} THEN Throw
    ELSE IF entry.t = "object" THEN Return(entry.tenant)
    ELSE Return(Undef)

\* .filter(id => id !== null), order and duplicates kept
RECURSIVE DropNull(_)
DropNull(ids) ==
    IF ids = <<>> THEN <<>>
    ELSE IF Head(ids) = Null THEN DropNull(Tail(ids))
    ELSE <<Head(ids)>> \o DropNull(Tail(ids))

\* [threw, ids]: the array returned, or the TypeError raised inside .map
extractUserTenantIds(user) ==
    IF user.t # "object" \/ ~Truthy(user.tenants) \/ user.tenants.t # "array"
    THEN [threw |-> FALSE, ids |-> <<>>]
    ELSE LET a == user.tenants.a
         IN IF \E i \in 1..Len(a) : TenantOf(a[i]).threw
            THEN [threw |-> TRUE, ids |-> <<>>]
            ELSE [threw |-> FALSE,
                  ids |-> DropNull([i \in 1..Len(a) |-> extractTenantId(TenantOf(a[i]).ret)])]

---------------------------------------------------------------------------
(* The access functions the plugin attaches, src/src/plugin.ts:65-316 *)

Ops == {"create", "read", "update", "delete"}

\* userHasAccessToAllTenants = (user) => user?.role === 'super-admin'
userHasAccessToAllTenants(user) == user.t = "object" /\ user.role = "super-admin"

\* collectionConfig.fieldName || 'tenants' ("" stands for a fieldName not given)
FieldName(opt) == IF opt = "" THEN "tenants" ELSE opt

\* { [`${fieldName}.tenant`]: { equals: selectedTenant } }
FilterEquals(fieldName, v) ==
    [t |-> "object", w |-> "equals", path |-> <<fieldName, "tenant">>, v |-> v]

\* { [`${fieldName}.tenant`]: { in: userTenantIds } }
FilterIn(fieldName, ids) ==
    [t |-> "object", w |-> "in", path |-> <<fieldName, "tenant">>, ids |-> ids]

\* { and: [filter, originalResult] }
And(filter, originalResult) ==
    [t |-> "object", w |-> "and", and |-> <<filter, originalResult>>]

\* An original access rule: not given, a static value, or a function; v is the
\* value (static) or what the awaited call evaluates to (function)
NoRule == [k |-> "absent", v |-> Undef, throws |-> FALSE]
StaticRule(v) == [k |-> "static", v |-> v, throws |-> FALSE]
FunctionRule(v) == [k |-> "function", v |-> v, throws |-> FALSE]
ThrowingRule == [k |-> "function", v |-> Undef, throws |-> TRUE]

\* what an access function did: raised or returned ret, after `calls`
\* invocations of the original rule
Outcome(threw_, ret, calls) == [threw |-> threw_, ret |-> ret, calls |-> calls]

\* await originalAccess.<op>(args)
CallRule(rule) ==
    IF rule.throws THEN Outcome(TRUE, Undef, 1) ELSE Outcome(FALSE, rule.v, 1)

\* if (typeof rule === 'function') return await rule(args)
\* return rule !== undefined ? rule : dflt
DelegateOr(rule, dflt) ==
    IF rule.k = "function" THEN CallRule(rule)
    ELSE Outcome(FALSE, IF rule.k # "absent" THEN rule.v ELSE dflt, 0)

\* typeof x === 'object' (true of null as well)
TypeofObject(v) == v.t \in {"object", "array", "null"}

\* the merge with the original rule called a second time for the value it
\* merges, after a first call for the typeof test
MergeWithOriginalCallingTwice(filter, rule) ==
    IF rule.k = "function"
    THEN LET o == CallRule(rule)
         IN IF o.threw THEN o
            ELSE IF TypeofObject(o.ret) THEN Outcome(FALSE, And(filter, o.ret), 2)
            ELSE Outcome(FALSE, filter, 1)
    ELSE Outcome(FALSE, filter, 0)

\* "Merge with original access control", plugin.ts:154-164 and 184-194
MergeWithOriginal(filter, rule) ==
    IF rule.k = "function"
    THEN LET o == CallRule(rule)
         IN IF o.threw THEN o
            ELSE IF TypeofObject(o.ret) THEN Outcome(FALSE, And(filter, o.ret), 1)
            ELSE Outcome(FALSE, filter, 1)
    ELSE Outcome(FALSE, filter, 0)

\* create with the cookie selection applied as in read: an elevated user with
\* a tenant selected gets the tenant filter instead of the original rule
createScoped(r, access) ==
    IF userHasAccessToAllTenants(r.user)
    THEN LET selectedTenant == getSelectedTenantFromCookie(r)
         IN IF Truthy(selectedTenant)
            THEN MergeWithOriginal(FilterEquals("tenants", selectedTenant), access.create)
            ELSE DelegateOr(access.create, Bool(TRUE))
    ELSE DelegateOr(access.create, Bool(FALSE))

\* access.create, plugin.ts:121-137
create(r, access) ==
    IF userHasAccessToAllTenants(r.user)
    THEN DelegateOr(access.create, Bool(TRUE))
    ELSE DelegateOr(access.create, Bool(FALSE))

\* TenantScopedAccess with "no tenant selected" answered by `return true`,
\* the original rule not consulted
TenantScopedAccessAllowAll(r, rule, fieldName) ==
    IF userHasAccessToAllTenants(r.user)
    THEN LET selectedTenant == getSelectedTenantFromCookie(r)
         IN IF Truthy(selectedTenant)
            THEN MergeWithOriginal(FilterEquals(fieldName, selectedTenant), rule)
            ELSE Outcome(FALSE, Bool(TRUE), 0)
    ELSE LET userTenantIds == extractUserTenantIds(r.user)
         IN IF userTenantIds.threw THEN Outcome(TRUE, Undef, 0)
            ELSE IF Len(userTenantIds.ids) > 0
            THEN MergeWithOriginal(FilterIn(fieldName, userTenantIds.ids), rule)
            ELSE Outcome(FALSE, Bool(FALSE), 0)

\* TenantScopedAccess with the final `return false` lost: a regular user
\* without tenants falls back on the original rule, as in create
TenantScopedAccessNoDeny(r, rule, fieldName) ==
    IF userHasAccessToAllTenants(r.user)
    THEN LET selectedTenant == getSelectedTenantFromCookie(r)
         IN IF Truthy(selectedTenant)
            THEN MergeWithOriginal(FilterEquals(fieldName, selectedTenant), rule)
            ELSE DelegateOr(rule, Bool(TRUE))
    ELSE LET userTenantIds == extractUserTenantIds(r.user)
         IN IF userTenantIds.threw THEN Outcome(TRUE, Undef, 0)
            ELSE IF Len(userTenantIds.ids) > 0
            THEN MergeWithOriginal(FilterIn(fieldName, userTenantIds.ids), rule)
            ELSE DelegateOr(rule, Bool(FALSE))

\* TenantScopedAccess with the membership filter applied before the role
\* check: a super-admin with assignments is filtered by them
TenantScopedAccessOwnTenants(r, rule, fieldName) ==
    LET userTenantIds == extractUserTenantIds(r.user)
    IN IF ~userTenantIds.threw /\ Len(userTenantIds.ids) > 0
       THEN MergeWithOriginal(FilterIn(fieldName, userTenantIds.ids), rule)
       ELSE IF userHasAccessToAllTenants(r.user)
       THEN LET selectedTenant == getSelectedTenantFromCookie(r)
            IN IF Truthy(selectedTenant)
               THEN MergeWithOriginal(FilterEquals(fieldName, selectedTenant), rule)
               ELSE DelegateOr(rule, Bool(TRUE))
       ELSE IF userTenantIds.threw THEN Outcome(TRUE, Undef, 0)
       ELSE Outcome(FALSE, Bool(FALSE), 0)

\* TenantScopedAccess with the selection read before the role check: a
\* selected tenant filters whoever asks
TenantScopedAccessSelectionForAll(r, rule, fieldName) ==
    LET selectedTenant == getSelectedTenantFromCookie(r)
    IN IF Truthy(selectedTenant)
       THEN MergeWithOriginal(FilterEquals(fieldName, selectedTenant), rule)
       ELSE IF userHasAccessToAllTenants(r.user) THEN DelegateOr(rule, Bool(TRUE))
       ELSE LET userTenantIds == extractUserTenantIds(r.user)
            IN IF userTenantIds.threw THEN Outcome(TRUE, Undef, 0)
               ELSE IF Len(userTenantIds.ids) > 0
               THEN MergeWithOriginal(FilterIn(fieldName, userTenantIds.ids), rule)
               ELSE Outcome(FALSE, Bool(FALSE), 0)

\* The body of access.read (plugin.ts:139-199); access.update (201-257) and
\* access.delete (259-315) are the same text over their own original rule.
TenantScopedAccess(r, rule, fieldName) ==
    IF userHasAccessToAllTenants(r.user)
    THEN LET selectedTenant == getSelectedTenantFromCookie(r)
         IN IF Truthy(selectedTenant)
            THEN MergeWithOriginal(FilterEquals(fieldName, selectedTenant), rule)
            ELSE DelegateOr(rule, Bool(TRUE))
    ELSE LET userTenantIds == extractUserTenantIds(r.user)
         IN IF userTenantIds.threw THEN Outcome(TRUE, Undef, 0)
            ELSE IF Len(userTenantIds.ids) > 0
            THEN MergeWithOriginal(FilterIn(fieldName, userTenantIds.ids), rule)
            ELSE Outcome(FALSE, Bool(FALSE), 0)

read(r, access, fieldName) == TenantScopedAccess(r, access.read, fieldName)

update(r, access, fieldName) == TenantScopedAccess(r, access.update, fieldName)

delete(r, access, fieldName) == TenantScopedAccess(r, access.delete, fieldName)

\* the function attached under `op`
Access(op, r, access, fieldName) ==
    CASE op = "create" -> create(r, access)
      [] op = "read" -> read(r, access, fieldName)
      [] op = "update" -> update(r, access, fieldName)
      [] op = "delete" -> delete(r, access, fieldName)

---------------------------------------------------------------------------
(* The inputs of a call *)

\* longest user.tenants array drawn
MaxAssignments == 2

S_all == <<"a", "l", "l">>
S_tenant_abc == <<"t", "e", "n", "a", "n", "t", "-", "a", "b", "c">>

\* "<cookieName>=<value>"
Cookie(value) == CookieName \o <<"=">> \o value

\* req.context.selectedTenant (Undef: no context, or the field not set)
ContextValues ==
    {Undef, Null, Str(S_all), Num(12), Num(0), Str(S_tenant_abc), Bool(FALSE)}

\* req.headers.cookie: Cookie header strings, and a header that is not a string
HeaderStrings ==
    { Cookie(<<"1", "2">>) \o <<";", " ", "o", "t", "h", "e", "r", "=", "x">>,
      <<"o", "t", "h", "e", "r", "=", "x", ";", " ">> \o Cookie(<<"4", "2">>),
      Cookie(S_all),
      <<"o", "t", "h", "e", "r", "=", "x">>,
      Cookie(<<"1", "2", "a", "b", "c">>),
      Cookie(S_tenant_abc),
      Cookie(<<"0">>),
      Cookie(<<"a", "=", "b">>),
      Cookie(<<>>) }

HeaderCookieValues == {Undef, Num(5)} \cup {Str(h) : h \in HeaderStrings}

\* req.cookies[cookieName]
\* (a cookie parser turns a "j:{...}" cookie into an object)
JsonCookie == [t |-> "object", w |-> "json"]

CookieMapValues == {Undef, Str(S_all), Str(<<"9">>), Str(S_tenant_abc), JsonCookie}

\* req.headers.get: not there, a function returning the header, one that
\* throws, and a truthy value that is no function
HeaderGetter(returns) == [t |-> "function", returns |-> returns, throws |-> FALSE]
ThrowingGetter == [t |-> "function", returns |-> Undef, throws |-> TRUE]

HeaderGetValues ==
    { Undef, Num(1), ThrowingGetter, HeaderGetter(Null),
      HeaderGetter(Str(Cookie(<<"7">>))), HeaderGetter(Str(Cookie(S_all))) }

Request(user, selectedTenant, headersCookie, cookie, headersGet) ==
    [t |-> "object", user |-> user, selectedTenant |-> selectedTenant,
     headersCookie |-> headersCookie, cookie |-> cookie, headersGet |-> headersGet]

\* entries of user.tenants: ids, a populated tenant, an unset tenant, a null row
AssignmentValues ==
    { Assignment(Num(7)), Assignment(Num(9)),
      Assignment(TenantDoc(Str(S_tenant_abc), Undef, Undef)),
      Assignment(Null), Null }

RECURSIVE SeqsUpTo(_, _)
SeqsUpTo(S, n) ==
    IF n = 0 THEN {<<>>}
    ELSE LET shorter == SeqsUpTo(S, n - 1)
         IN shorter \cup {Append(q, x) : q \in {z \in shorter : Len(z) = n - 1}, x \in S}

\* user.tenants: missing, not an array, or an array of entries
TenantsValues ==
    {Undef, Str(<<"x">>)} \cup {JsArray(a) : a \in SeqsUpTo(AssignmentValues, MaxAssignments)}

User(role, tenants) == [t |-> "object", id |-> Num(1), role |-> role, tenants |-> tenants]

Roles == {"super-admin", "tenant-user"}

Users == {Null} \cup {User(role, ts) : role \in Roles, ts \in TenantsValues}

\* the collection's own filter, e.g. { _status: { equals: 'published' } }
PublishedOnly ==
    [t |-> "object", w |-> "equals", path |-> <<"_status">>,
     v |-> Str(<<"p", "u", "b", "l", "i", "s", "h", "e", "d">>)]

Rules ==
    { NoRule, StaticRule(Bool(TRUE)), StaticRule(Bool(FALSE)), StaticRule(PublishedOnly),
      FunctionRule(Bool(TRUE)), FunctionRule(Bool(FALSE)), FunctionRule(PublishedOnly),
      FunctionRule(Null), ThrowingRule }

\* collection.access || {}: the same rule under every operation, and two
\* collections whose operations differ
OriginalAccessValues ==
    {[create |-> r, read |-> r, update |-> r, delete |-> r] : r \in Rules}
    \cup { [create |-> FunctionRule(Bool(TRUE)), read |-> NoRule,
            update |-> NoRule, delete |-> NoRule],
           [create |-> NoRule, read |-> FunctionRule(PublishedOnly),
            update |-> StaticRule(Bool(FALSE)), delete |-> FunctionRule(Bool(FALSE))] }

FieldNameOpts == {"", "orgs"}

\* every combination of the four cookie shapes, for two users
AllShapeRequests ==
    { Request(u, c, h, m, g) :
        u \in {User("super-admin", JsArray(<<Assignment(Num(7))>>)),
               User("tenant-user", JsArray(<<Assignment(Num(7))>>))},
        c \in ContextValues, h \in HeaderCookieValues,
        m \in CookieMapValues, g \in HeaderGetValues }

\* every user, for a few cookie shapes
AllUserRequests ==
    { Request(u, sh[1], sh[2], sh[3], sh[4]) :
        u \in Users,
        sh \in { <<Undef, Undef, Undef, Undef>>,
                 <<Num(12), Undef, Undef, Undef>>,
                 <<Str(S_all), Undef, Undef, Undef>>,
                 <<Undef, Str(Cookie(<<"1", "2">>) \o <<";", " ", "o", "t", "h", "e", "r", "=", "x">>),
                   Undef, Undef>>,
                 <<Undef, Str(Cookie(S_all)), Str(<<"9">>), Undef>>,
                 <<Undef, Undef, Str(S_tenant_abc), Undef>>,
                 <<Undef, Undef, Undef, HeaderGetter(Str(Cookie(<<"7">>)))>>,
                 <<Undef, Str(Cookie(<<"0">>)), Undef, Undef>> } }

\* getSelectedTenantFromCookie(req) is exported: req may be null or undefined
NoRequests == {Null, Undef}

\* multiTenantPlugin(): pluginOptions = {} ("" stands for a slug not given)
NoOptions ==
    [t |-> "object", tenantsSlug |-> "", collections |-> Undef,
     userHasAccessToAllTenants |-> Undef]

---------------------------------------------------------------------------
(* The state machine: one call per behaviour *)

Init ==
    /\ \/ /\ req \in AllShapeRequests
          /\ originalAccess \in
                {[create |-> r, read |-> r, update |-> r, delete |-> r] :
                    r \in {NoRule, FunctionRule(PublishedOnly)}}
          /\ fieldNameOpt = ""
       \/ /\ req \in AllUserRequests
          /\ originalAccess \in OriginalAccessValues
          /\ fieldNameOpt \in FieldNameOpts
       \/ /\ req \in NoRequests
          /\ originalAccess = [create |-> NoRule, read |-> NoRule,
                               update |-> NoRule, delete |-> NoRule]
          /\ fieldNameOpt = ""
    /\ called = "none"
    /\ result = Undef
    /\ threw = FALSE
    /\ delegateCalls = 0
    /\ arg = Undef
    /\ payload = Undef
    /\ storeCalls = 0
    /\ pluginOptions = NoOptions
    /\ incomingConfig = Undef
    /\ documentCookie = <<>>
    /\ selections = <<>>

\* the host framework calls the access function attached under `op`
CallAccess(op) ==
    /\ called = "none"
    /\ req.t = "object"
    /\ LET o == Access(op, req, originalAccess, FieldName(fieldNameOpt))
       IN /\ result' = o.ret
          /\ threw' = o.threw
          /\ delegateCalls' = o.calls
    /\ called' = op
    /\ UNCHANGED <<req, originalAccess, fieldNameOpt>>
    /\ UNCHANGED helperVars
    /\ UNCHANGED browserVars

Create == CallAccess("create")

Read == CallAccess("read")

Update == CallAccess("update")

Delete == CallAccess("delete")

\* a direct call of the exported helper
GetSelectedTenantFromCookie ==
    /\ called = "none"
    /\ result' = getSelectedTenantFromCookie(req)
    /\ threw' = FALSE
    /\ called' = "getSelectedTenantFromCookie"
    /\ UNCHANGED <<req, originalAccess, fieldNameOpt, delegateCalls>>
    /\ UNCHANGED helperVars
    /\ UNCHANGED browserVars

Next ==
    \/ Create
    \/ Read
    \/ Update
    \/ Delete
    \/ GetSelectedTenantFromCookie

Spec == Init /\ [][Next]_vars

---------------------------------------------------------------------------
(* The exported helpers that query the document store,                     *)
(* src/src/lib/helpers.ts:103-198                                          *)

\* a document of the users collection
UserDoc(id, role, tenants) == [t |-> "object", id |-> id, role |-> role, tenants |-> tenants]

\* the store: the documents of its users collection in the order a query
\* returns them, and whether its queries fail
Store(users, fails) == [t |-> "object", users |-> users, fails |-> fails]

\* a JavaScript array of values, as a result
EmptyArray == JsArray(<<>>)

\* .map((t) => extractTenantId(t.tenant)).filter((id) => id !== null)
\* [threw, ids]: the array, or the TypeError raised inside .map
MapTenantIds(a) ==
    IF \E i \in 1..Len(a) : TenantOf(a[i]).threw
    THEN [threw |-> TRUE, ids |-> <<>>]
    ELSE [threw |-> FALSE,
          ids |-> DropNull([i \in 1..Len(a) |-> extractTenantId(TenantOf(a[i]).ret)])]

\* await payload.findByID({ collection: 'users', id, depth: 2 }):
\* a TypeError without a payload, a failure of the store, the document, or
\* nothing
findByID(store, id) ==
    IF store.t # "object" \/ store.fails THEN Throw
    ELSE LET hits == {i \in 1..Len(store.users) : store.users[i].id = id}
         IN IF hits = {} THEN Return(Null)
            ELSE Return(store.users[CHOOSE i \in hits : \A j \in hits : i <= j])

\* the queries a call sent: none when there is no payload to send them to
Sent(store) == IF store.t = "object" THEN 1 ELSE 0

\* getUserTenantIds without its try / catch: what the lookup raises propagates
getUserTenantIdsPropagating(userId, store) ==
    LET found == findByID(store, userId)
    IN IF found.threw THEN Outcome(TRUE, Undef, Sent(store))
       ELSE LET userDoc == found.ret
            IN IF /\ Truthy(userDoc) /\ Truthy(userDoc.tenants)
                  /\ userDoc.tenants.t = "array"
               THEN LET tenantIds == MapTenantIds(userDoc.tenants.a)
                    IN IF tenantIds.threw THEN Outcome(TRUE, Undef, 1)
                       ELSE Outcome(FALSE, JsArray(tenantIds.ids), 1)
               ELSE Outcome(FALSE, EmptyArray, 1)

\* getUserTenantIds, helpers.ts:103-124
getUserTenantIds(userId, store) ==
    LET found == findByID(store, userId)
    IN IF found.threw THEN Outcome(FALSE, EmptyArray, Sent(store))
       ELSE LET userDoc == found.ret
            IN IF /\ Truthy(userDoc) /\ Truthy(userDoc.tenants)
                  /\ userDoc.tenants.t = "array"
               THEN LET tenantIds == MapTenantIds(userDoc.tenants.a)
                    IN IF tenantIds.threw THEN Outcome(FALSE, EmptyArray, 1)
                       ELSE Outcome(FALSE, JsArray(tenantIds.ids), 1)
               ELSE Outcome(FALSE, EmptyArray, 1)

\* { id: { in: tenantIds } }
FilterIdIn(tenantIds) == [t |-> "object", w |-> "in", path |-> <<"id">>, ids |-> tenantIds]

\* the function getTenantFilterOptions() returns, applied to { user, req }
\* with req.payload = store; helpers.ts:132-154
getTenantFilterOptions(user, store) ==
    IF user.t = "object" /\ user.role = "super-admin"
    THEN Outcome(FALSE, Bool(TRUE), 0)
    ELSE IF user.t = "object" /\ Truthy(user.id)
    THEN LET tenantIds == getUserTenantIds(user.id, store)
         IN IF tenantIds.threw THEN tenantIds
            ELSE IF Len(tenantIds.ret.a) > 0
            THEN Outcome(FALSE, FilterIdIn(tenantIds.ret.a), tenantIds.calls)
            ELSE Outcome(FALSE, Bool(FALSE), tenantIds.calls)
    ELSE Outcome(FALSE, Bool(FALSE), 0)

\* limit: 1000 of the users query
FindLimit == 1000

\* await payload.find({ collection: 'users', depth: 2, limit }): the first
\* page of the collection
find(store, limit) ==
    IF store.t # "object" \/ store.fails THEN Throw
    ELSE LET n == IF Len(store.users) < limit THEN Len(store.users) ELSE limit
         IN Return([t |-> "object", docs |-> JsArray(SubSeq(store.users, 1, n))])

\* tenantIds.includes(id)
Includes(tenantIds, id) == \E j \in 1..Len(tenantIds) : tenantIds[j] = id

\* getUserIdsForTenants, helpers.ts:164-198
getUserIdsForTenants(tenantIds, store) ==
    IF tenantIds.t # "array" THEN Outcome(FALSE, EmptyArray, 0)
    ELSE IF Len(tenantIds.a) = 0 THEN Outcome(FALSE, EmptyArray, 0)
    ELSE LET users == find(store, FindLimit)
         IN IF users.threw THEN Outcome(FALSE, EmptyArray, Sent(store))
            ELSE LET docs == users.ret.docs.a
                     HasTenants(user) == Truthy(user.tenants) /\ user.tenants.t = "array"
                     hasMatchingTenant(user) ==
                         /\ HasTenants(user)
                         /\ LET userTenantIds == MapTenantIds(user.tenants.a).ids
                            IN \E i \in 1..Len(userTenantIds) :
                                  Includes(tenantIds.a, userTenantIds[i])
                     matching == SelectSeq(docs, hasMatchingTenant)
                 IN IF \E i \in 1..Len(docs) :
                          HasTenants(docs[i]) /\ MapTenantIds(docs[i].tenants.a).threw
                    THEN Outcome(FALSE, EmptyArray, 1)
                    ELSE Outcome(FALSE,
                                 JsArray([i \in 1..Len(matching) |-> matching[i].id]), 1)

\* userHasAccessToAllTenants of the options, plugin.ts:68: the predicate
\* given, or (user) => user?.role === 'super-admin'
RolePredicate(roles) == [t |-> "function", roles |-> roles]

ConfiguredAccessToAllTenants(options, user) ==
    IF options.userHasAccessToAllTenants = Undef
    THEN userHasAccessToAllTenants(user)
    ELSE user.t = "object" /\ user.role \in options.userHasAccessToAllTenants.roles

---------------------------------------------------------------------------
(* The inputs of a helper call *)

\* what a field of a tenant document may hold
IdFieldValues == {Undef, Null, Num(0), Num(5), Str(S_tenant_abc)}

\* extractTenantId(tenant): "tenant data in any format"
TenantArgs ==
    {Undef, Null, Num(0), Num(5), Str(<<>>), Str(S_tenant_abc), Bool(TRUE), EmptyArray}
    \cup {TenantDoc(a, b, c) : a \in IdFieldValues, b \in IdFieldValues, c \in IdFieldValues}

\* the tenants of a stored user
StoredTenantsValues ==
    { Undef, EmptyArray,
      JsArray(<<Assignment(Num(7))>>),
      JsArray(<<Assignment(Num(7)), Assignment(TenantDoc(Str(S_tenant_abc), Undef, Undef))>>),
      JsArray(<<Assignment(Num(9))>>),
      JsArray(<<Assignment(Null), Assignment(Num(9))>>),
      JsArray(<<Null>>) }

\* stores of up to two users, a store whose queries fail, no payload at all
SmallStores ==
    {Store(<<>>, FALSE), Undef,
     Store(<<UserDoc(Num(1), "tenant-user", JsArray(<<Assignment(Num(7))>>))>>, TRUE)}
    \cup {Store(<<UserDoc(Num(1), "tenant-user", ts)>>, FALSE) : ts \in StoredTenantsValues}
    \cup {Store(<<UserDoc(Num(1), "tenant-user", ts1), UserDoc(Num(2), "tenant-user", ts2)>>, FALSE) :
            ts1 \in StoredTenantsValues, ts2 \in StoredTenantsValues}

\* a store of one user more than a query returns: the members of tenant 9,
\* then the one member of tenant 7
BigStore ==
    Store([i \in 1..(FindLimit + 1) |->
              UserDoc(Num(i), "tenant-user",
                      JsArray(<<Assignment(Num(IF i = FindLimit + 1 THEN 7 ELSE 9))>>))],
          FALSE)

\* the user the admin UI passes to filterOptions
FilterOptionsUsers ==
    {Null, UserDoc(Undef, "tenant-user", Undef)}
    \cup {UserDoc(Num(1), role, Undef) : role \in {"super-admin", "admin", "tenant-user"}}

TenantIdsArgs ==
    {Null, EmptyArray, JsArray(<<Num(7)>>), JsArray(<<Num(9), Str(S_tenant_abc)>>)}

\* the plugin's options as far as the helpers are concerned
ElevationOptions ==
    {NoOptions,
     [NoOptions EXCEPT !.userHasAccessToAllTenants = RolePredicate({"admin", "super-admin"})]}

---------------------------------------------------------------------------
(* The helpers' state machine: one call per behaviour *)

InitHelpers ==
    /\ \/ /\ arg \in {[tenant |-> v] : v \in TenantArgs}
          /\ payload = Undef
          /\ pluginOptions = NoOptions
       \/ /\ arg \in {[userId |-> Num(n)] : n \in {1, 3}}
          /\ payload \in SmallStores
          /\ pluginOptions = NoOptions
       \/ /\ arg \in {[user |-> u] : u \in FilterOptionsUsers}
          /\ payload \in SmallStores
          /\ pluginOptions \in ElevationOptions
       \/ /\ arg \in {[tenantIds |-> ids] : ids \in TenantIdsArgs}
          /\ payload \in SmallStores \cup {BigStore}
          /\ pluginOptions = NoOptions
    /\ called = "none"
    /\ result = Undef
    /\ threw = FALSE
    /\ storeCalls = 0
    /\ incomingConfig = Undef
    /\ documentCookie = <<>>
    /\ selections = <<>>
    /\ req = Undef
    /\ originalAccess = Undef
    /\ fieldNameOpt = ""
    /\ delegateCalls = 0

\* extractTenantId(tenant)
ExtractTenantId ==
    /\ called = "none"
    /\ DOMAIN arg = {"tenant"}
    /\ result' = extractTenantId(arg.tenant)
    /\ threw' = FALSE
    /\ called' = "extractTenantId"
    /\ UNCHANGED <<arg, payload, storeCalls, pluginOptions, incomingConfig>>
    /\ UNCHANGED accessVars
    /\ UNCHANGED browserVars

\* what a helper that queries the store did
Record(fn, o) ==
    /\ result' = o.ret
    /\ threw' = o.threw
    /\ storeCalls' = o.calls
    /\ called' = fn
    /\ UNCHANGED <<arg, payload, pluginOptions, incomingConfig>>
    /\ UNCHANGED accessVars
    /\ UNCHANGED browserVars

\* await getUserTenantIds(userId, payload)
GetUserTenantIds ==
    /\ called = "none"
    /\ DOMAIN arg = {"userId"}
    /\ Record("getUserTenantIds", getUserTenantIds(arg.userId, payload))

\* await getTenantFilterOptions()({ user, req }), req.payload the store
GetTenantFilterOptions ==
    /\ called = "none"
    /\ DOMAIN arg = {"user"}
    /\ Record("getTenantFilterOptions", getTenantFilterOptions(arg.user, payload))

\* await getUserIdsForTenants(tenantIds, payload)
GetUserIdsForTenants ==
    /\ called = "none"
    /\ DOMAIN arg = {"tenantIds"}
    /\ Record("getUserIdsForTenants", getUserIdsForTenants(arg.tenantIds, payload))

NextHelpers ==
    \/ ExtractTenantId
    \/ GetUserTenantIds
    \/ GetTenantFilterOptions
    \/ GetUserIdsForTenants

SpecHelpers == InitHelpers /\ [][NextHelpers]_vars

---------------------------------------------------------------------------
(* multiTenantPlugin(pluginOptions)(incomingConfig), src/src/plugin.ts:61-324 *)

\* a collection of the host configuration: its slug, its fields (Undef or an
\* array), its access (Undef or an object) and what else it carries
Collection(slug, fields, access, admin) ==
    [t |-> "object", slug |-> slug, fields |-> fields, access |-> access, admin |-> admin]

\* collection.access: the four operations the plugin takes over and the
\* other entries (a rule is NoRule when the entry is not there)
AccessObject(create_, read_, update_, delete_, admin, unlock) ==
    [t |-> "object", create |-> create_, read |-> read_, update |-> update_,
     delete |-> delete_, admin |-> admin, unlock |-> unlock]

\* collection.access || {}
OriginalAccess(collection) ==
    IF Truthy(collection.access) THEN collection.access
    ELSE AccessObject(NoRule, NoRule, NoRule, NoRule, NoRule, NoRule)

\* the access function the plugin attaches under op: a closure over the
\* collection's original access and field name (calling it is Access)
PluginAccess(op, originalAccess_, fieldName) ==
    [k |-> "function", plugin |-> op, originalAccess |-> originalAccess_,
     fieldName |-> fieldName, throws |-> FALSE]

\* tenantsSlug = 'tenants'
TenantsSlug(options) == IF options.tenantsSlug = "" THEN "tenants" ELSE options.tenantsSlug

\* the array field appended, plugin.ts:94-112
TenantsField(fieldName, tenantsSlug) ==
    [name |-> fieldName, type |-> "array", label |-> "Tenants",
     condition |-> "userHasAccessToAllTenants(user)",
     fields |-> <<[name |-> "tenant", type |-> "relationship",
                   relationTo |-> tenantsSlug, required |-> TRUE]>>]

\* collections[collectionSlug] of the options (Undef: not configured); the
\* slugs drawn are no property names of Object.prototype
CollectionConfig(options, slug) ==
    IF options.collections # Undef /\ slug \in DOMAIN options.collections.of
    THEN options.collections.of[slug]
    ELSE Undef

\* updatedCollection with its access built from the four functions alone,
\* the original entries not spread into it
UpdatedCollectionAccessReplaced(collection, fieldName, tenantsSlug) ==
    LET originalAccess_ == OriginalAccess(collection)
        fields == IF Truthy(collection.fields) THEN collection.fields.a ELSE <<>>
    IN [collection EXCEPT
          !.fields = JsArray(fields \o <<TenantsField(fieldName, tenantsSlug)>>),
          !.access = AccessObject(PluginAccess("create", originalAccess_, fieldName),
                                  PluginAccess("read", originalAccess_, fieldName),
                                  PluginAccess("update", originalAccess_, fieldName),
                                  PluginAccess("delete", originalAccess_, fieldName),
                                  NoRule, NoRule)]

\* updatedCollection, plugin.ts:90-318
UpdatedCollection(collection, fieldName, tenantsSlug) ==
    LET originalAccess_ == OriginalAccess(collection)
        fields == IF Truthy(collection.fields) THEN collection.fields.a ELSE <<>>
    IN [collection EXCEPT
          !.fields = JsArray(fields \o <<TenantsField(fieldName, tenantsSlug)>>),
          !.access = [originalAccess_ EXCEPT
                        !.create = PluginAccess("create", originalAccess_, fieldName),
                        !.read = PluginAccess("read", originalAccess_, fieldName),
                        !.update = PluginAccess("update", originalAccess_, fieldName),
                        !.delete = PluginAccess("delete", originalAccess_, fieldName)]]

\* the callback of config.collections.map, plugin.ts:78-318
MapCollection(options, collection) ==
    LET collectionConfig == CollectionConfig(options, collection.slug)
    IN IF ~Truthy(collectionConfig) THEN collection
       ELSE UpdatedCollection(collection, FieldName(collectionConfig.fieldName),
                              TenantsSlug(options))

\* [ret, incoming]: the config returned and the incoming config after the call
multiTenantPlugin(options, config_) ==
    LET config == config_
    IN [ret |-> IF Truthy(config.collections)
                THEN [config EXCEPT !.collections =
                        JsArray([i \in 1..Len(config.collections.a) |->
                                    MapCollection(options, config.collections.a[i])])]
                ELSE config,
        incoming |-> config_]

---------------------------------------------------------------------------
(* The inputs of the plugin *)

TitleField == [name |-> "title", type |-> "text"]

FieldsValues == {Undef, JsArray(<<TitleField>>), JsArray(<<TitleField, [name |-> "body", type |-> "richText"]>>)}

AccessValues ==
    { Undef,
      AccessObject(FunctionRule(Bool(TRUE)), NoRule, NoRule, NoRule,
                   FunctionRule(Bool(TRUE)), NoRule),
      AccessObject(NoRule, FunctionRule(PublishedOnly), StaticRule(Bool(FALSE)),
                   FunctionRule(Bool(FALSE)), NoRule, FunctionRule(Bool(FALSE))) }

Slugs == {"pages", "posts", "media"}

Collections ==
    {Collection(slug, f, a, "useAsTitle: title") :
        slug \in Slugs, f \in FieldsValues, a \in AccessValues}

\* longest config.collections drawn
MaxCollections == 2

HostConfig(collections) ==
    [t |-> "object", collections |-> collections, serverURL |-> "https://cms.example"]

IncomingConfigs ==
    {HostConfig(Undef)}
    \cup {HostConfig(JsArray(cs)) :
            cs \in {q \in SeqsUpTo(Collections, MaxCollections) :
                      \A i \in 1..Len(q), j \in 1..Len(q) : i # j => q[i].slug # q[j].slug}}

\* options.collections: a slug to { fieldName } mapping
Configured(of) == [t |-> "object", of |-> of]

PluginOptionsValues ==
    {[NoOptions EXCEPT !.tenantsSlug = ts, !.collections = cs] :
        ts \in {"", "organizations"},
        cs \in {Undef,
                Configured([slug \in {"pages"} |-> [t |-> "object", fieldName |-> ""]]),
                Configured([slug \in {"pages", "posts"} |->
                               [t |-> "object", fieldName |-> IF slug = "pages" THEN "orgs" ELSE ""]])}}

---------------------------------------------------------------------------
(* The plugin's state machine: the host applies it once *)

InitPlugin ==
    /\ incomingConfig \in IncomingConfigs
    /\ pluginOptions \in PluginOptionsValues
    /\ called = "none"
    /\ result = Undef
    /\ threw = FALSE
    /\ arg = Undef
    /\ payload = Undef
    /\ storeCalls = 0
    /\ req = Undef
    /\ originalAccess = Undef
    /\ fieldNameOpt = ""
    /\ delegateCalls = 0
    /\ documentCookie = <<>>
    /\ selections = <<>>

\* multiTenantPlugin(pluginOptions)(incomingConfig)
ApplyPlugin ==
    /\ called = "none"
    /\ LET applied == multiTenantPlugin(pluginOptions, incomingConfig)
       IN /\ result' = applied.ret
          /\ incomingConfig' = applied.incoming
    /\ called' = "multiTenantPlugin"
    /\ UNCHANGED <<threw, arg, payload, storeCalls, pluginOptions>>
    /\ UNCHANGED accessVars
    /\ UNCHANGED browserVars

NextPlugin == ApplyPlugin

SpecPlugin == InitPlugin /\ [][NextPlugin]_vars

---------------------------------------------------------------------------
(* TenantDropdown, src/unnamed/part_002:81-145, and the browser that holds  *)
(* its cookie                                                              *)

\* String(n) of an integer n >= 0
RECURSIVE Decimal(_)
Decimal(n) ==
    IF n < 10 THEN <<Digits[n + 1]>>
    ELSE Decimal(n \div 10) \o <<Digits[(n % 10) + 1]>>

\* <option value={tenant.id}>: e.target.value is the id as a string
OptionValue(id) == IF id.t = "number" THEN Decimal(id.n) ELSE id.s

\* `payload-selected-tenant=${value}; path=/; expires=${expires.toUTCString()}`
CookieAssignment(value) ==
    Cookie(value) \o <<";", " ", "p", "a", "t", "h", "=", "/">>
    \o <<";", " ", "e", "x", "p", "i", "r", "e", "s", "=", "W", "e", "d", ",", " ", "0", "2", " ", "D", "e", "c", " ", "2", "0", "2", "6", " ", "0", "0", ":", "0", "0", ":", "0", "0", " ", "G", "M", "T">>

\* document.cookie = assignment: the browser stores the name and the value
\* of the first segment (split at its first "="), replacing the cookie of
\* that name or adding one
SetDocumentCookie(jar, assignment) ==
    LET pair == Split(assignment, ";")[1]
        eq == CHOOSE k \in 1..Len(pair) : pair[k] = "=" /\ \A j \in 1..(k - 1) : pair[j] # "="
        cookie == [name |-> Trim(SubSeq(pair, 1, eq - 1)),
                   value |-> Trim(SubSeq(pair, eq + 1, Len(pair)))]
    IN IF \E i \in 1..Len(jar) : jar[i].name = cookie.name
       THEN [i \in 1..Len(jar) |-> IF jar[i].name = cookie.name THEN cookie ELSE jar[i]]
       ELSE Append(jar, cookie)

\* the Cookie header the browser sends: name=value pairs joined by "; "
RECURSIVE CookieHeader(_)
CookieHeader(jar) ==
    IF jar = <<>> THEN <<>>
    ELSE LET rest == CookieHeader(Tail(jar))
         IN Head(jar).name \o <<"=">> \o Head(jar).value
            \o (IF rest = <<>> THEN <<>> ELSE <<";", " ">> \o rest)

\* the session cookie of the logged-in admin
SessionCookie ==
    [name |-> <<"p", "a", "y", "l", "o", "a", "d", "-", "t", "o", "k", "e", "n">>,
     value |-> <<"j", "w", "t">>]

\* the tenants the dropdown lists, by id: a numeric id, a slug-like id, an
\* ObjectId-like id
S_5f1a == <<"5", "f", "1", "a">>

DropdownTenants == {Num(12), Str(S_tenant_abc), Str(S_5f1a)}

\* the "All Tenants" option
AllTenants == Str(S_all)

\* most selections made between two page loads followed
MaxSelections == 3

\* the logged-in super-admin
SuperAdmin == User("super-admin", Undef)

InitDropdown ==
    /\ documentCookie = <<SessionCookie>>
    /\ selections = <<>>
    /\ originalAccess \in
          {[create |-> r, read |-> r, update |-> r, delete |-> r] :
              r \in {NoRule, FunctionRule(PublishedOnly)}}
    /\ fieldNameOpt = ""
    /\ pluginOptions = NoOptions
    /\ req = Undef
    /\ called = "none"
    /\ result = Undef
    /\ threw = FALSE
    /\ delegateCalls = 0
    /\ arg = Undef
    /\ payload = Undef
    /\ storeCalls = 0
    /\ incomingConfig = Undef

\* the page reloads: what the last request returned is gone
Reload ==
    /\ req' = Undef
    /\ called' = "none"
    /\ result' = Undef
    /\ threw' = FALSE
    /\ delegateCalls' = 0
    /\ UNCHANGED <<originalAccess, fieldNameOpt, arg, payload, storeCalls,
                   pluginOptions, incomingConfig>>

\* handleTenantChange, part_002:129-137: an option is chosen
HandleTenantChange ==
    /\ Len(selections) < MaxSelections
    /\ \E choice \in DropdownTenants \cup {AllTenants} :
          /\ documentCookie' =
                SetDocumentCookie(documentCookie, CookieAssignment(OptionValue(choice)))
          /\ selections' = Append(selections, choice)
    /\ Reload

\* handleReset, part_002:139-145
HandleReset ==
    /\ Len(selections) < MaxSelections
    /\ documentCookie' = SetDocumentCookie(documentCookie, CookieAssignment(S_all))
    /\ selections' = Append(selections, AllTenants)
    /\ Reload

\* the reloaded admin UI reads, updates or deletes: the browser sends its
\* cookies, which the server hands over as req.headers.cookie or through
\* req.headers.get('cookie')
RequestAfterReload ==
    /\ called = "none"
    /\ \E op \in Ops \ {"create"}, asProperty \in BOOLEAN :
          LET header == Str(CookieHeader(documentCookie))
              request == IF asProperty
                         THEN Request(SuperAdmin, Undef, header, Undef, Undef)
                         ELSE Request(SuperAdmin, Undef, Undef, Undef, HeaderGetter(header))
              o == Access(op, request, originalAccess, FieldName(fieldNameOpt))
          IN /\ req' = request
             /\ result' = o.ret
             /\ threw' = o.threw
             /\ delegateCalls' = o.calls
             /\ called' = op
    /\ UNCHANGED <<originalAccess, fieldNameOpt>>
    /\ UNCHANGED helperVars
    /\ UNCHANGED browserVars

NextDropdown ==
    \/ HandleTenantChange
    \/ HandleReset
    \/ RequestAfterReload

SpecDropdown == InitDropdown /\ [][NextDropdown]_vars

---------------------------------------------------------------------------
(* Vocabulary of the properties *)

ReadUpdateDelete == {"read", "update", "delete"}

Elevated == req.t = "object" /\ userHasAccessToAllTenants(req.user)

Regular == req.t = "object" /\ ~userHasAccessToAllTenants(req.user)

\* the field the called collection stores its tenants under
TheFieldName == FieldName(fieldNameOpt)

\* the original rule of the called operation
TheRule == originalAccess[called]

\* the caller's resolved tenant ids
Resolved == extractUserTenantIds(req.user)

ResolvedSet == {Resolved.ids[i] : i \in 1..Len(Resolved.ids)}

\* a structured predicate (a Where object), as opposed to a boolean or null
IsWhere(v) == v.t = "object"

\* the rule is absent or evaluates to a value that is no structured predicate
NonStructuredRule(rule) == rule.k = "absent" \/ (~rule.throws /\ ~IsWhere(rule.v))

\* Documents of the called collection, as the host's query engine sees them:
\* the values under <fieldName>.tenant and the document's _status
Docs ==
    [tenant : SUBSET {Num(7), Num(9), Num(12), Str(S_tenant_abc)},
     status : {Str(<<"p", "u", "b", "l", "i", "s", "h", "e", "d">>), Str(<<"d", "r", "a", "f", "t">>)}]

\* the document satisfies one constraint; a null conjunct constrains nothing
MatchesOne(doc, w) ==
    IF w.t # "object" THEN TRUE
    ELSE CASE w.w = "in" ->
                 /\ w.path = <<TheFieldName, "tenant">>
                 /\ \E i \in 1..Len(w.ids) : w.ids[i] \in doc.tenant
           [] w.w = "equals" ->
                 \/ w.path = <<TheFieldName, "tenant">> /\ w.v \in doc.tenant
                 \/ w.path = <<"_status">> /\ w.v = doc.status
           [] OTHER -> FALSE

Matches(doc, w) ==
    IF w.t = "object" /\ w.w = "and"
    THEN \A i \in 1..Len(w.and) : MatchesOne(doc, w.and[i])
    ELSE MatchesOne(doc, w)

\* The selection as section 4.3 states it. A request is well formed when each
\* cookie shape is absent or of its proper type.
WellFormed(r) ==
    /\ r.t = "object"
    /\ r.headersCookie.t \in {"undefined", "string"}
    /\ r.cookie.t \in {"undefined", "string"}
    /\ \/ r.headersGet = Undef
       \/ /\ r.headersGet.t = "function" /\ ~r.headersGet.throws
          /\ r.headersGet.returns.t \in {"null", "string"}

\* "split on ;, trim each segment, find the segment starting with
\* <cookieName>=, take the remainder"
StatedHeaderValue(h) ==
    LET segs == Split(h, ";")
        prefix == CookieName \o <<"=">>
        hits == {i \in 1..Len(segs) : StartsWith(Trim(segs[i]), prefix)}
    IN IF hits = {} THEN Undef
       ELSE LET seg == Trim(segs[CHOOSE i \in hits : \A j \in hits : i <= j])
            IN Str(SubSeq(seg, Len(prefix) + 1, Len(seg)))

\* what lookup method k supplies for the cookie (Undef: nothing)
Supplied(r, k) ==
    CASE k = 1 -> r.selectedTenant
      [] k = 2 -> IF r.headersCookie.t = "string" THEN StatedHeaderValue(r.headersCookie.s)
                  ELSE Undef
      [] k = 3 -> r.cookie
      [] k = 4 -> IF /\ r.headersGet.t = "function" /\ ~r.headersGet.throws
                     /\ r.headersGet.returns.t = "string"
                  THEN StatedHeaderValue(r.headersGet.returns.s)
                  ELSE Undef

\* the first method that supplies the cookie, 0 when none does
FirstSource(r) ==
    IF \A k \in 1..4 : Supplied(r, k) = Undef THEN 0
    ELSE CHOOSE k \in 1..4 :
            Supplied(r, k) # Undef /\ \A j \in 1..(k - 1) : Supplied(r, j) = Undef

\* the string is the decimal form of an integer
IsCanonicalInt(s) ==
    LET body == IF s # <<>> /\ s[1] = "-" THEN Tail(s) ELSE s
    IN /\ body # <<>>
       /\ \A i \in 1..Len(body) : IsDigit(body[i])
       /\ (Len(body) > 1 => body[1] # "0")
       /\ (body = <<"0">> => s = body)

\* "all" is no selection; a string that round-trips as a base-10 integer is
\* that integer; any other string is itself
StatedIdentifier(raw) ==
    IF raw.t # "string" THEN raw
    ELSE IF raw = Str(S_all) THEN Null
    ELSE IF IsCanonicalInt(raw.s)
         THEN Num(IF raw.s[1] = "-" THEN 0 - DigitsValue(Tail(raw.s)) ELSE DigitsValue(raw.s))
    ELSE raw

\* a raw cookie value with no further "=" in it, and not empty
PlainValue(raw) ==
    raw.t = "string" /\ raw.s # <<>> /\ \A i \in 1..Len(raw.s) : raw.s[i] # "="

\* no tenant selected: every method supplies nothing or "all"
NoTenantSelected(r) == \A k \in 1..4 : Supplied(r, k) \in {Undef, Str(S_all)}

---------------------------------------------------------------------------
(* C1 *)

\* C1: whatever read, update or delete returns to a non-elevated user is
\* Deny-All or a predicate that only documents carrying one of the user's
\* resolved tenants under <fieldName>.tenant can satisfy; never Allow-All,
\* never a filter that leaves the tenant unconstrained.
TenantIsolationForRegularUsers ==
    (called \in ReadUpdateDelete /\ Regular /\ ~threw) =>
        \/ result = Bool(FALSE)
        \/ /\ IsWhere(result)
           /\ \A doc \in Docs :
                 Matches(doc, result) => doc.tenant \cap ResolvedSet # {}

\* a regular user with tenants read a collection whose own rule is a filter:
\* some document satisfies the decision, some document of another tenant does not
RegularUserGotScopedFilter ==
    /\ called = "read" /\ Regular /\ ~threw
    /\ IsWhere(result) /\ result.w = "and"
    /\ \E doc \in Docs : Matches(doc, result)
    /\ \E doc \in Docs : doc.tenant # {} /\ ~Matches(doc, result)

---------------------------------------------------------------------------
(* C2 *)

\* C2: a non-elevated user whose resolved tenant set is empty gets Deny-All
\* from create, read, update and delete, whatever the original rule is.
\* (stated of the calls that return, and counting every falsy value as the
\* denial the host takes it for)
NoTenantsAlwaysDenied ==
    (called \in Ops /\ Regular /\ ~Resolved.threw /\ Resolved.ids = <<>> /\ ~threw) =>
        ~Truthy(result)

\* the part of C2 the code keeps: read, update and delete deny such a user
\* without consulting the original rule
NoTenantsDeniedReadUpdateDelete ==
    (called \in ReadUpdateDelete /\ Regular /\ ~Resolved.threw /\ Resolved.ids = <<>>) =>
        (~threw /\ result = Bool(FALSE) /\ delegateCalls = 0)

---------------------------------------------------------------------------
(* C3 *)

\* C3: for a non-elevated user whose assignments resolve to the non-empty
\* sequence S, and an original rule that is absent or evaluates to a value that
\* is no structured predicate, read, update and delete return exactly
\* { <fieldName>.tenant: { in: S } }, S in assignment order, duplicates kept.
RegularFilterIsExactlyIn ==
    (/\ called \in ReadUpdateDelete /\ Regular
     /\ ~Resolved.threw /\ Resolved.ids # <<>>
     /\ NonStructuredRule(TheRule)) =>
        (~threw /\ result = FilterIn(TheFieldName, Resolved.ids))

\* the same with the original rule absent or evaluating to a boolean
RegularFilterIsExactlyInForBooleanRules ==
    (/\ called \in ReadUpdateDelete /\ Regular
     /\ ~Resolved.threw /\ Resolved.ids # <<>>
     /\ (TheRule.k = "absent" \/ (~TheRule.throws /\ TheRule.v.t = "boolean"))) =>
        (~threw /\ result = FilterIn(TheFieldName, Resolved.ids))

---------------------------------------------------------------------------
(* C6 *)

\* C6: the decision an elevated user gets from create, read, update or delete
\* is the one every request gets that differs from it only in user.tenants.
ElevatedDecisionIgnoresMemberships ==
    (called \in Ops /\ Elevated) =>
        \A ts \in TenantsValues :
            LET other == Access(called, [req EXCEPT !.user.tenants = ts],
                                originalAccess, TheFieldName)
            IN other.threw = threw /\ other.ret = result

\* a super-admin with assignments of their own, a tenant selected in the
\* cookie, got the filter of the selected tenant
ElevatedWithOwnTenantsGotSelection ==
    /\ called = "read" /\ Elevated /\ ~threw
    /\ ~Resolved.threw /\ Resolved.ids = <<Num(7), Num(9)>>
    /\ result = FilterEquals(TheFieldName, Num(12))

---------------------------------------------------------------------------
(* C4 *)

\* C4: for an elevated user whose selection cookie carries the tenant
\* identifier T (a number, or a string other than "all"), and an original rule
\* that is absent or evaluates to a value that is no structured predicate,
\* read, update and delete return exactly { <fieldName>.tenant: { equals: T } }.
\* (stated of well-formed requests with no context field, whose cookie value
\* is not empty and holds no "=")
ElevatedFilterIsExactlyEquals ==
    (/\ called \in ReadUpdateDelete /\ Elevated /\ WellFormed(req)
     /\ req.selectedTenant = Undef
     /\ FirstSource(req) # 0
     /\ PlainValue(Supplied(req, FirstSource(req)))
     /\ Supplied(req, FirstSource(req)) # Str(S_all)
     /\ NonStructuredRule(TheRule)) =>
        /\ ~threw
        /\ result = FilterEquals(TheFieldName,
                                 StatedIdentifier(Supplied(req, FirstSource(req))))

---------------------------------------------------------------------------
(* C5 *)

---------------------------------------------------------------------------
(* C7 *)

\* the decision filters on the literal "all"
FiltersOnAll(w) ==
    /\ IsWhere(w)
    /\ \/ w.w = "equals" /\ w.v = Str(S_all)
       \/ w.w = "and" /\ w.and[1].w = "equals" /\ w.and[1].v = Str(S_all)

\* C7: when the method that supplies the cookie supplies "all" (the context
\* field, the Cookie header property, the parsed cookie mapping or the header
\* accessor), getSelectedTenantFromCookie returns null; so no decision of an
\* elevated user is a filter `equals "all"`.
AllAlwaysYieldsNull ==
    /\ (/\ called = "getSelectedTenantFromCookie" /\ WellFormed(req)
        /\ FirstSource(req) # 0
        /\ Supplied(req, FirstSource(req)) = Str(S_all)) =>
            result = Null
    /\ (called \in ReadUpdateDelete /\ Elevated /\ ~threw) => ~FiltersOnAll(result)

---------------------------------------------------------------------------
(* C8 *)

\* the well-formed requests that agree with r on methods 1..k
LaterVariants(r, k) ==
    { [r EXCEPT !.headersCookie = IF k < 2 THEN h ELSE @,
                !.cookie = IF k < 3 THEN m ELSE @,
                !.headersGet = IF k < 4 THEN g ELSE @] :
        h \in {x \in HeaderCookieValues : x.t \in {"undefined", "string"}},
        m \in {x \in CookieMapValues : x.t \in {"undefined", "string"}},
        g \in {Undef, HeaderGetter(Null), HeaderGetter(Str(Cookie(<<"7">>))),
               HeaderGetter(Str(Cookie(S_all)))} }

\* C8: the first method, in the order context field, Cookie header property,
\* cookie mapping, header accessor, that supplies the cookie decides the
\* result: whatever the later methods hold, the selection returned is the same.
\* (stated of the values supplied that are not the empty string)
FirstMatchWins ==
    (/\ called = "getSelectedTenantFromCookie" /\ WellFormed(req)
     /\ FirstSource(req) # 0
     /\ Supplied(req, FirstSource(req)) # Str(<<>>)) =>
        \A r2 \in LaterVariants(req, FirstSource(req)) :
            getSelectedTenantFromCookie(r2) = result

---------------------------------------------------------------------------
(* C9 *)

\* C9: a matched raw cookie value other than "all" comes back as the integer
\* it is the base-10 form of, and as the raw string otherwise ("12abc" stays
\* "12abc").  (stated of values that are not empty and hold no "=")
IntegerOrRawString ==
    (/\ called = "getSelectedTenantFromCookie" /\ WellFormed(req)
     /\ req.selectedTenant = Undef
     /\ FirstSource(req) # 0
     /\ PlainValue(Supplied(req, FirstSource(req)))
     /\ Supplied(req, FirstSource(req)) # Str(S_all)) =>
        result = StatedIdentifier(Supplied(req, FirstSource(req)))

---------------------------------------------------------------------------
(* C10 *)

\* none of the four cookie shapes is there
NoShape(r) ==
    \/ r.t # "object"
    \/ /\ r.selectedTenant = Undef /\ r.headersCookie = Undef
       /\ r.cookie = Undef /\ r.headersGet = Undef

\* C10: getSelectedTenantFromCookie never raises; whatever the request, it
\* returns a tenant identifier (a number or a string) or null, and null when
\* none of the four shapes is present.  (stated of the requests whose context
\* field, when set, holds an identifier or null)
SelectorReturnsIdentifierOrNull ==
    (/\ called = "getSelectedTenantFromCookie"
     /\ req.t = "object" => req.selectedTenant.t \in {"undefined", "null", "number", "string"}) =>
        /\ ~threw
        /\ result.t \in {"number", "string", "null"}
        /\ NoShape(req) => result = Null

---------------------------------------------------------------------------
(* C13 *)

\* C13: read, update and delete by a non-elevated user never raise on the
\* resolver's account: whatever user.tenants holds, every entry resolves or is
\* discarded, and the call completes with a decision unless the original rule
\* itself raises.
RegularResolverNeverRaises ==
    (called \in ReadUpdateDelete /\ Regular /\ ~TheRule.throws) => ~threw

\* the part of C13 the code keeps: entries that are objects, whatever their
\* tenant holds, resolve or are discarded
RegularResolverNeverRaisesOnObjectEntries ==
    (/\ called \in ReadUpdateDelete /\ Regular /\ ~TheRule.throws
     /\ req.user.t = "object" /\ req.user.tenants.t = "array"
     /\ \A i \in 1..Len(req.user.tenants.a) : req.user.tenants.a[i].t = "object") =>
        ~threw

---------------------------------------------------------------------------
(* C16 *)

\* the tenant filter that applies to the call, when one does
TenantFilterApplies ==
    IF Elevated THEN Truthy(getSelectedTenantFromCookie(req))
    ELSE ~Resolved.threw /\ Resolved.ids # <<>>

TheTenantFilter ==
    IF Elevated THEN FilterEquals(TheFieldName, getSelectedTenantFromCookie(req))
    ELSE FilterIn(TheFieldName, Resolved.ids)

\* C16: whenever a tenant filter applies to read, update or delete and the
\* original rule evaluates to a structured predicate P (a function returning
\* P, or the static filter P itself), the decision is { and: [Filter, P] }.
FilterMergedWithStructuredRule ==
    (/\ called \in ReadUpdateDelete /\ TenantFilterApplies
     /\ TheRule.k # "absent" /\ ~TheRule.throws /\ IsWhere(TheRule.v)) =>
        (~threw /\ result = And(TheTenantFilter, TheRule.v))

\* the part of C16 the code keeps: a function returning P is merged
FilterMergedWithFunctionRule ==
    (/\ called \in ReadUpdateDelete /\ TenantFilterApplies
     /\ TheRule.k = "function" /\ ~TheRule.throws /\ IsWhere(TheRule.v)) =>
        (~threw /\ result = And(TheTenantFilter, TheRule.v))

---------------------------------------------------------------------------
(* C17 *)

\* C17: for an elevated user create is the original create rule: the awaited
\* result of a function (called once, its failure propagated), a static value
\* as it is, Allow-All when there is none; whatever the cookie shapes hold.
ElevatedCreateDelegates ==
    (called = "create" /\ Elevated) =>
        IF TheRule.k = "function"
        THEN /\ threw = TheRule.throws
             /\ ~threw => result = TheRule.v
             /\ delegateCalls = 1
        ELSE /\ ~threw
             /\ result = (IF TheRule.k = "static" THEN TheRule.v ELSE Bool(TRUE))
             /\ delegateCalls = 0

\* a super-admin with tenant 12 selected on the request created in a
\* collection whose create rule is a function returning a filter, and got
\* that filter, not the tenant's
ElevatedCreateWithSelectionGotRule ==
    /\ called = "create" /\ Elevated /\ ~threw
    /\ getSelectedTenantFromCookie(req) = Num(12)
    /\ TheRule = FunctionRule(PublishedOnly)
    /\ result = PublishedOnly

---------------------------------------------------------------------------
(* C18 *)

\* C18: create for a non-elevated user is a boolean grant that holds exactly
\* when the user has a resolved tenant: with no original create rule the
\* decision is true for a user with tenants and false for one without.
RegularCreateGrantedIffHasTenant ==
    (called = "create" /\ Regular /\ ~Resolved.threw /\ TheRule.k = "absent") =>
        (~threw /\ result = Bool(Resolved.ids # <<>>))

\* the part of C18 the code keeps: create never returns a filter of the
\* plugin's making, only what the original rule evaluates to, or false
RegularCreateNeverPluginFilter ==
    (called = "create" /\ Regular /\ ~threw) =>
        result = (IF TheRule.k = "absent" THEN Bool(FALSE) ELSE TheRule.v)

---------------------------------------------------------------------------
(* C11 *)

\* C11: extractTenantId is the identity on every number and string (the values
\* a Tenant id may take), and idempotent: what it resolves an input to, it
\* resolves to itself.
ExtractTenantIdIdempotent ==
    called = "extractTenantId" =>
        /\ arg.tenant.t \in {"number", "string"} => result = arg.tenant
        /\ result # Null => extractTenantId(result) = result

\* the part of C11 the code keeps: identifiers other than 0 and ""
ExtractTenantIdIdempotentOnTruthyIds ==
    called = "extractTenantId" =>
        /\ (arg.tenant.t \in {"number", "string"} /\ Truthy(arg.tenant)) =>
              result = arg.tenant
        /\ Truthy(result) => extractTenantId(result) = result

---------------------------------------------------------------------------
(* C12 *)

\* the value under the first of id, _id, ID that is neither null nor undefined
FirstSetField(doc) ==
    IF doc.id \notin {Undef, Null} THEN doc.id
    ELSE IF doc._id \notin {Undef, Null} THEN doc._id
    ELSE IF doc.ID \notin {Undef, Null} THEN doc.ID
    ELSE Null

\* C12: for a record, extractTenantId returns the value under the first of
\* id, _id, ID that holds one, and null when none does; for null and
\* undefined it returns null.
ExtractTenantIdFieldPriority ==
    called = "extractTenantId" =>
        /\ arg.tenant.t = "object" => result = FirstSetField(arg.tenant)
        /\ arg.tenant.t \in {"null", "undefined", "array"} => result = Null

\* { id: null, _id: 0, ID: 5 } resolved to 0: id skipped, _id before ID
ExtractedSecondFieldZero ==
    /\ called = "extractTenantId"
    /\ arg.tenant = TenantDoc(Null, Num(0), Num(5))
    /\ result = Num(0)

---------------------------------------------------------------------------
(* C14 *)

\* the lookup of the user's document fails, finds no document, or finds one
\* without a tenants array
LookupFindsNoTenants(userId, store) ==
    LET found == findByID(store, userId)
    IN \/ found.threw
       \/ found.ret = Null
       \/ found.ret.tenants.t # "array"

\* C14: when findByID fails, or returns no user, or a user without a tenants
\* array, getUserTenantIds returns [] and raises nothing, and the filter
\* options of a non-elevated user are Deny-All, never Allow-All.
MembershipLookupFailsClosed ==
    /\ (called = "getUserTenantIds" /\ LookupFindsNoTenants(arg.userId, payload)) =>
          (~threw /\ result = EmptyArray)
    /\ (/\ called = "getTenantFilterOptions"
        /\ ~ConfiguredAccessToAllTenants(pluginOptions, arg.user)
        /\ arg.user.t = "object" /\ arg.user.id # Undef
        /\ LookupFindsNoTenants(arg.user.id, payload)) =>
          (~threw /\ result = Bool(FALSE))

\* the store failed the one query the filter options of a tenant user sent
\* it, and the options are Deny-All
StoreFailedAndOptionsDenied ==
    /\ called = "getTenantFilterOptions"
    /\ arg.user = UserDoc(Num(1), "tenant-user", Undef)
    /\ payload.t = "object" /\ payload.fails
    /\ storeCalls = 1
    /\ ~threw /\ result = Bool(FALSE)

---------------------------------------------------------------------------
(* C15 *)

\* what the membership lookup of the user returns
LookedUp(user) == getUserTenantIds(user.id, payload).ret.a

\* the filter options as stated, for the users `elevated` accepts
StatedFilterOptions(elevated) ==
    IF elevated THEN Bool(TRUE)
    ELSE IF arg.user.t = "object" /\ arg.user.id # Undef /\ LookedUp(arg.user) # <<>>
    THEN FilterIdIn(LookedUp(arg.user))
    ELSE Bool(FALSE)

\* C15: the filter options are Allow-All for the users the configured
\* userHasAccessToAllTenants accepts; otherwise { id: { in: tenantIds } } when
\* the user has an id and the lookup returns tenants; otherwise Deny-All.
FilterOptionsFollowConfiguredPredicate ==
    called = "getTenantFilterOptions" =>
        /\ ~threw
        /\ result = StatedFilterOptions(ConfiguredAccessToAllTenants(pluginOptions, arg.user))

\* what the code does: the same with the role 'super-admin' in the place of
\* the configured predicate
FilterOptionsFollowSuperAdminRole ==
    called = "getTenantFilterOptions" =>
        /\ ~threw
        /\ result = StatedFilterOptions(userHasAccessToAllTenants(arg.user))

---------------------------------------------------------------------------
(* C19 *)

\* every row of every stored user's tenants is an object
RowsAreObjects(store) ==
    \A i \in 1..Len(store.users) :
        store.users[i].tenants.t = "array" =>
            \A k \in 1..Len(store.users[i].tenants.a) :
                store.users[i].tenants.a[k].t = "object"

\* the ids of the stored users with an assignment whose tenant resolves to a
\* member of tenantIds
Members(tenantIds, store) ==
    { store.users[i].id : i \in
        { i \in 1..Len(store.users) :
            /\ store.users[i].tenants.t = "array"
            /\ \E k \in 1..Len(store.users[i].tenants.a) :
                  LET row == store.users[i].tenants.a[k]
                  IN /\ row.t = "object"
                     /\ extractTenantId(row.tenant) # Null
                     /\ Includes(tenantIds, extractTenantId(row.tenant)) } }

Elements(a) == {a[i] : i \in 1..Len(a)}

\* C19: getUserIdsForTenants returns the ids of all the stored users that
\* have an assignment resolving to a member of tenantIds, and no other id;
\* [] without a query when tenantIds is empty; [] when the query fails.
UserIdsForTenantsComplete ==
    called = "getUserIdsForTenants" =>
        /\ ~threw
        /\ arg.tenantIds = EmptyArray => (result = EmptyArray /\ storeCalls = 0)
        /\ (payload.t = "object" /\ payload.fails) => result = EmptyArray
        /\ (/\ arg.tenantIds.t = "array" /\ arg.tenantIds # EmptyArray
            /\ payload.t = "object" /\ ~payload.fails /\ RowsAreObjects(payload)) =>
              Elements(result.a) = Members(arg.tenantIds.a, payload)

\* the part of C19 the code keeps: stores of no more users than one query
\* returns
UserIdsForTenantsCompleteWithinLimit ==
    (called = "getUserIdsForTenants" /\ payload.t = "object"
     /\ Len(payload.users) <= FindLimit) => UserIdsForTenantsComplete

---------------------------------------------------------------------------
(* C20 *)

\* the slug is a key of options.collections
IsConfigured(slug) ==
    pluginOptions.collections # Undef /\ slug \in DOMAIN pluginOptions.collections.of

\* the access entries the plugin does not take over
OtherAccessEntries == {"admin", "unlock"}

\* collection c of the incoming config came back as u
KeptAsStated(c, u) ==
    IF ~IsConfigured(c.slug) THEN u = c
    ELSE LET old == IF c.fields = Undef THEN <<>> ELSE c.fields.a
             fieldName == FieldName(pluginOptions.collections.of[c.slug].fieldName)
         IN /\ u.t = c.t /\ u.slug = c.slug /\ u.admin = c.admin
            /\ u.fields.t = "array"
            /\ Len(u.fields.a) = Len(old) + 1
            /\ SubSeq(u.fields.a, 1, Len(old)) = old
            /\ u.fields.a[Len(old) + 1].name = fieldName
            /\ u.fields.a[Len(old) + 1].type = "array"
            /\ \A k \in OtherAccessEntries :
                  u.access[k] = (IF c.access = Undef THEN NoRule ELSE c.access[k])

\* the returned config against the incoming one
ConfigKeptAsStated ==
    called = "multiTenantPlugin" =>
        /\ result.t = "object"
        /\ result.serverURL = incomingConfig.serverURL
        /\ IF incomingConfig.collections = Undef THEN result.collections = Undef
           ELSE /\ result.collections.t = "array"
                /\ Len(result.collections.a) = Len(incomingConfig.collections.a)
                /\ \A i \in 1..Len(incomingConfig.collections.a) :
                      KeptAsStated(incomingConfig.collections.a[i], result.collections.a[i])

---------------------------------------------------------------------------
(* C22 *)

\* C22: when the cookie comes from a Cookie header string (the request
\* property or the header accessor), the raw value is the whole remainder of
\* the first trimmed segment starting with <cookieName>=, further "="
\* characters included; the selection returned is that raw value, as an
\* integer when parseInt reads one.  (stated of values other than "" and "all")
HeaderValueIsWholeRemainder ==
    (/\ called = "getSelectedTenantFromCookie" /\ WellFormed(req)
     /\ req.selectedTenant = Undef
     /\ FirstSource(req) \in {2, 4}
     /\ Supplied(req, FirstSource(req)) \notin {Str(<<>>), Str(S_all)}) =>
        result = NumberOrRaw(Supplied(req, FirstSource(req)))

\* the part of C22 the code keeps: values that hold no "="
HeaderValueIsRemainderWithoutEquals ==
    (/\ called = "getSelectedTenantFromCookie" /\ WellFormed(req)
     /\ req.selectedTenant = Undef
     /\ FirstSource(req) \in {2, 4}
     /\ PlainValue(Supplied(req, FirstSource(req)))
     /\ Supplied(req, FirstSource(req)) # Str(S_all)) =>
        result = NumberOrRaw(Supplied(req, FirstSource(req)))

---------------------------------------------------------------------------
(* C23 *)

\* the requests that differ from r in one of the four selection shapes, and
\* the request with none of them
SelectionVariants(r) ==
    {[r EXCEPT !.selectedTenant = c] : c \in ContextValues}
    \cup {[r EXCEPT !.headersCookie = h] : h \in HeaderCookieValues}
    \cup {[r EXCEPT !.cookie = m] : m \in CookieMapValues}
    \cup {[r EXCEPT !.headersGet = g] : g \in HeaderGetValues}
    \cup {[r EXCEPT !.selectedTenant = Undef, !.headersCookie = Undef,
                    !.cookie = Undef, !.headersGet = Undef]}

\* C23: the decision a non-elevated user gets from create, read, update or
\* delete is the one every request gets that differs from it only in the
\* selection data (context field, Cookie header, cookie mapping, header
\* accessor).
RegularDecisionIgnoresSelection ==
    (called \in Ops /\ Regular) =>
        \A r2 \in SelectionVariants(req) :
            LET other == Access(called, r2, originalAccess, TheFieldName)
            IN other.threw = threw /\ other.ret = result

\* a tenant user of tenant 7 whose request selects tenant 12 read, and got
\* the filter of tenant 7
RegularWithSelectionGotOwnTenants ==
    /\ called = "read" /\ Regular /\ ~threw
    /\ req.selectedTenant = Num(12)
    /\ result = FilterIn(TheFieldName, <<Num(7)>>)

---------------------------------------------------------------------------
(* C24 *)

\* C24: one call of create, read, update or delete invokes the collection's
\* original rule at most once, and not at all when read, update or delete
\* deny a non-elevated user for having no resolved tenant.
DelegateInvokedAtMostOnce ==
    /\ delegateCalls <= 1
    /\ (/\ called \in ReadUpdateDelete /\ Regular
        /\ ~Resolved.threw /\ Resolved.ids = <<>>) =>
          (result = Bool(FALSE) /\ delegateCalls = 0)
    /\ (called \in Ops /\ TheRule.k # "function") => delegateCalls = 0

\* a tenant user deleted in a collection whose delete rule is a function
\* returning a filter: one call of the rule, its filter merged
MergedAfterOneDelegateCall ==
    /\ called = "delete" /\ Regular /\ ~threw
    /\ TheRule = FunctionRule(PublishedOnly)
    /\ IsWhere(result) /\ result.w = "and"
    /\ delegateCalls = 1

---------------------------------------------------------------------------
(* C21 *)

\* the admin's last action in the dropdown
LastChoice == selections[Len(selections)]

\* the value the browser holds under payload-selected-tenant
SelectionCookie ==
    LET hits == {i \in 1..Len(documentCookie) : documentCookie[i].name = CookieName}
    IN IF hits = {} THEN Undef ELSE Str(documentCookie[CHOOSE i \in hits : TRUE].value)

\* the cookie holds the value of the last action
CookieHoldsLastAction ==
    Len(selections) > 0 => SelectionCookie = Str(OptionValue(LastChoice))

\* the decision of the last action: the filter of the tenant chosen, merged
\* with the original rule as usual, or the no-selection decision after "all"
DecisionOfLastAction ==
    IF LastChoice = AllTenants THEN DelegateOr(TheRule, Bool(TRUE))
    ELSE MergeWithOriginal(FilterEquals(TheFieldName, LastChoice), TheRule)

\* C21: after any sequence of selections and resets in the dropdown the
\* cookie payload-selected-tenant holds the value of the last action, and
\* the super-admin's next read, update or delete is decided by that action:
\* the filter equals the tenant chosen last, or the no-selection decision
\* when the last value is "all".
DropdownSelectionDecides ==
    /\ CookieHoldsLastAction
    /\ (called \in ReadUpdateDelete /\ Len(selections) > 0) =>
          (threw = DecisionOfLastAction.threw /\ result = DecisionOfLastAction.ret)

\* the part of C21 the code keeps: the cookie always follows the last action,
\* and so does the decision unless the tenant chosen last has a string id
\* that starts with a digit
DropdownSelectionDecidesForPlainIds ==
    /\ CookieHoldsLastAction
    /\ (/\ called \in ReadUpdateDelete /\ Len(selections) > 0
        /\ ~(LastChoice.t = "string" /\ IsDigit(LastChoice.s[1]))) =>
          (threw = DecisionOfLastAction.threw /\ result = DecisionOfLastAction.ret)

===========================================================================
